---- MODULE Spec2Model ----
(***************************************************************************)
(* State-machine model of ForexTradingBot (src/forex_bot.py): the run      *)
(* loop, the daily reset, one trading cycle (account logging, position     *)
(* management, new-entry evaluation, order placement) and stop().          *)
(*                                                                         *)
(* Money amounts (balance, unrealized PL, daily PnL) are whole currency    *)
(* units, fractions of the balance are in basis points or percent, price   *)
(* distances are in pips (1e-4), confidence is in percent.                 *)
(***************************************************************************)
EXTENDS Integers, Sequences, FiniteSets, TLC

\* ------------------------------------------------------------------------
\* Configuration set by ForexTradingBot.__init__
\* ------------------------------------------------------------------------
instruments == <<"EUR_USD", "GBP_USD">>

max_positions == 2

\* risk_config['max_risk_per_trade'] = 0.01, in basis points
max_risk_per_trade == 100

\* risk_config['max_daily_loss'] = 0.05, in percent
max_daily_loss == 5

use_kelly_criterion == FALSE

\* confidence threshold 0.5 of generate_signal_advanced, in percent
min_confidence == 50

\* lot step and min_position_size of generate_signal_advanced
lot_step == 100

min_position_size == 100

\* len(self.trade_history) > 100 in update_trade_history
history_capacity == 100

\* len(self.trade_history) > 20 in generate_signal_advanced
kelly_min_trades == 20

\* ------------------------------------------------------------------------
\* Bounds of the model
\* ------------------------------------------------------------------------
\* closes recorded over a run
MaxRecords == 2

\* successful orders per day
MaxTradesToday == 2

\* fills the broker accepts for one instrument
MaxFills == 2

\* closes recorded on top of a given trade history
MaxAppends == 3

\* ------------------------------------------------------------------------
\* Inputs read from the gateway, the clock and the algorithm
\* ------------------------------------------------------------------------
InstrumentSet == {instruments[k] : k \in 1..Len(instruments)}

Signal == {"HOLD", "BUY", "SELL", "STRONG_BUY", "STRONG_SELL"}

Confidences == {30, 80}

Signals == [signal : Signal, confidence : Confidences]

\* account balance reported by the broker
Balances == {10000}

\* unrealizedPL the broker reports for an open position
PLs == {-600, 200}

\* |current_price - signal.stop_loss| in pips
StopDistances == {15, 15000}

\* <<atr, avg_atr>> in pips; atr = 0 is "no atr in signal.indicators"
AtrPairs == {<<0, 20>>, <<10, 20>>, <<50, 20>>}

Weekdays == 0..6

Hours == 0..23

MarketData == {"df_empty", "no_price", "ok"}

\* current price in pips
Prices == {11000}

\* signal.indicators.get('atr', 0) in pips
Atrs == {0, 10}

\* What one call of generate_signal_advanced followed by place_order reads.
\* A read the method does not reach, because an earlier read already made it
\* return, is listed with one value only. In the run loop the signal carries
\* no atr; the volatility adjustment is part of SignalReads.
NotRead(r, fields) ==
    /\ "balance" \in fields => r.balance = 10000
    /\ "data" \in fields => r.data = "ok"
    /\ "sig" \in fields => r.sig = [signal |-> "BUY", confidence |-> 80]
    /\ r.corr_ok
    /\ r.stop_distance = 15
    /\ r.atr_pair = <<0, 20>>
    /\ r.order_ok

EvalReads ==
    {r \in [acct_ok : BOOLEAN, balance : Balances, data : MarketData,
            sig : Signals, corr_ok : BOOLEAN, stop_distance : StopDistances,
            atr_pair : {a \in AtrPairs : a[1] = 0}, order_ok : BOOLEAN] :
        /\ ~r.acct_ok => NotRead(r, {"balance", "data", "sig"})
        /\ r.data # "ok" => NotRead(r, {"sig"})
        /\ (r.sig.signal = "HOLD" \/ r.sig.confidence < min_confidence)
              => NotRead(r, {})}

\* What one iteration of manage_positions reads: the position's
\* unrealizedPL, the market data, the signal and the answer to the close
\* request. In the run loop the signal carries no atr; the trailing stop is
\* part of ManageAloneReads.
ManageReads ==
    {r \in [unrealized_pl : PLs, data : MarketData, sig : Signals,
            close_ok : BOOLEAN, current_price : Prices,
            atr : {a \in Atrs : a = 0}] :
        /\ r.data # "ok" => (r.sig = [signal |-> "SELL", confidence |-> 80]
                               /\ r.close_ok)
        /\ r.sig.signal = "HOLD" => r.close_ok}

\* Every combination of reads of one iteration of manage_positions, with
\* the position the iteration is about
ManageAloneReads ==
    [instrument : InstrumentSet, units : {-1, 1}, unrealized_pl : PLs,
     data : MarketData, sig : Signals, close_ok : BOOLEAN,
     current_price : Prices, atr : Atrs]

\* Every combination of reads of one call of generate_signal_advanced;
\* open_instruments is the answer of get_open_positions in the method
SignalReads ==
    [acct_ok : BOOLEAN, balance : Balances, data : MarketData, sig : Signals,
     instrument : InstrumentSet, open_instruments : SUBSET InstrumentSet,
     stop_distance : StopDistances, atr_pair : AtrPairs]

\* no evaluation studied alone
NoReads == <<>>

\* the two currency codes of an instrument name
Currencies(instrument) ==
    CASE instrument = "EUR_USD" -> {"EUR", "USD"}
      [] instrument = "GBP_USD" -> {"GBP", "USD"}
      [] OTHER -> {}

VARIABLES
    running,          \* self.running
    daily_pnl,        \* self.daily_pnl
    trades_today,     \* self.trades_today
    winning_trades,   \* self.winning_trades
    losing_trades,    \* self.losing_trades
    trade_history,    \* self.trade_history, the pnl of each record
    broker,           \* the broker's open position per instrument
    pc,               \* position of the run loop
    todo,             \* manage_positions: positions still to visit
    positions,        \* execute_trading_cycle: instruments fetched before entries
    idx,              \* execute_trading_cycle: index into instruments
    tick,             \* what the current tick has done so far
    tracking,         \* whether failed close requests are remembered in last
    last,             \* the latest manage pass's latest failed close request
    limit_reached,    \* an evaluation found the daily-loss gate blocked
                      \* and no reset has happened since
    preemptive,       \* whether stop() is also called while a tick is running
    reads,            \* what generate_signal_advanced reads, when one
                      \* evaluation is studied alone
    sizing,           \* risk_config['use_kelly_criterion'] and the risk
                      \* fraction chosen with it, when sizing is studied alone
    clocked           \* whether the hour-0 window the ticks fall in is followed

vars == <<running, daily_pnl, trades_today, winning_trades, losing_trades,
          trade_history, broker, pc, todo, positions, idx, tick, tracking,
          last, limit_reached, preemptive, reads, sizing, clocked>>

\* what a run never changes
modes == <<tracking, preemptive, reads, sizing, clocked>>

bot == <<daily_pnl, trades_today, winning_trades, losing_trades, trade_history>>

\* fills: successful orders still open; side: sign of the net units
NoPos == [fills |-> 0, side |-> 0]

NoClose == [instrument |-> "", upl |-> 0, signal |-> "HOLD", confidence |-> 0]

\* no risk fraction chosen yet
NoSizing(use_kelly) == [use_kelly |-> use_kelly, kelly |-> FALSE, risk_percent |-> -1]

NewTick ==
    [hour0 |-> FALSE, acct |-> "none", managed |-> FALSE, visited |-> {},
     closes |-> {}, repeated |-> {}, evals |-> <<>>, drained |-> {},
     fault |-> FALSE, reset_done |-> FALSE, stops |-> {}]

\* ------------------------------------------------------------------------
\* Gateway reads
\* ------------------------------------------------------------------------
\* the unrealizedPL of a position is supplied where it is read
RECURSIVE PositionsFrom(_)
PositionsFrom(k) ==
    IF k > Len(instruments) THEN <<>>
    ELSE (IF broker[instruments[k]].fills > 0
          THEN <<[instrument |-> instruments[k],
                  units |-> broker[instruments[k]].side]>>
          ELSE <<>>) \o PositionsFrom(k + 1)

\* a failed request is answered with the empty list
get_open_positions(ok) == IF ok THEN PositionsFrom(1) ELSE <<>>

Held(list) == {list[k].instrument : k \in 1..Len(list)}

\* the instruments of get_open_positions()
OpenInstruments(ok) == Held(get_open_positions(ok))

\* successful orders of the bot that are still open
OpenCount == broker[instruments[1]].fills + broker[instruments[2]].fills

\* ------------------------------------------------------------------------
\* Risk manager (trading_algorithms.RiskManager)
\* ------------------------------------------------------------------------
\* a candidate is rejected if an open instrument shares a currency code
check_correlation_risk(instrument, open_instruments) ==
    \A o \in open_instruments : Currencies(instrument) \cap Currencies(o) = {}

\* averageAtr / currentAtr clamped to [0.5, 1.5], as <<numerator, denominator>>
VolatilityFactor(atr, avg_atr) ==
    IF 2 * avg_atr <= atr THEN <<1, 2>>
    ELSE IF 2 * avg_atr >= 3 * atr THEN <<3, 2>>
    ELSE <<avg_atr, atr>>

\* ------------------------------------------------------------------------
\* generate_signal_advanced
\* ------------------------------------------------------------------------
DailyLossGateBlocked(pnl, balance) == pnl * 100 <= -(balance * max_daily_loss)

RECURSIVE SumSeq(_)
SumSeq(q) == IF q = <<>> THEN 0 ELSE Head(q) + SumSeq(Tail(q))

IsWin(pnl) == pnl > 0

IsLoss(pnl) == pnl < 0

\* RiskManager.calculate_kelly_criterion in basis points:
\* win_rate - (1 - win_rate) / (avg_win / avg_loss), clipped to
\* [0, max_risk_per_trade]; the arguments are the sums and counts that
\* generate_signal_advanced takes from the trade history
calculate_kelly_criterion(n, n_wins, sum_wins, n_losses, sum_losses) ==
    LET num == n_wins * sum_wins * n_losses - (n - n_wins) * n_wins * sum_losses
        den == n * sum_wins * n_losses
    IN  IF num <= 0 THEN 0
        ELSE IF 10000 * num >= max_risk_per_trade * den THEN max_risk_per_trade
        ELSE (10000 * num) \div den

\* use_kelly_criterion and len(self.trade_history) > 20
KellyApplies(use_kelly, history) == use_kelly /\ Len(history) > kelly_min_trades

\* whether calculate_kelly_criterion is called: if wins and losses
KellyInvoked(use_kelly, history) ==
    /\ KellyApplies(use_kelly, history)
    /\ SelectSeq(history, IsWin) # <<>>
    /\ SelectSeq(history, IsLoss) # <<>>

\* risk_percent of generate_signal_advanced, in basis points
RiskPercent(use_kelly, history) ==
    IF KellyInvoked(use_kelly, history)
    THEN LET wins == SelectSeq(history, IsWin)
             losses == SelectSeq(history, IsLoss)
         IN  calculate_kelly_criterion(Len(history), Len(wins), SumSeq(wins),
                                       Len(losses), -SumSeq(losses))
    ELSE max_risk_per_trade

\* calculate_position_size_fixed_risk: balance * risk_percent /
\* stop_distance, as <<numerator, denominator>>
FixedRiskSize(balance, stop_distance, risk_percent) ==
    <<balance * risk_percent, stop_distance>>

\* adjust_position_for_volatility, applied if atr > 0
AdjustedSize(size, atr_pair) ==
    LET f == IF atr_pair[1] > 0 THEN VolatilityFactor(atr_pair[1], atr_pair[2])
             ELSE <<1, 1>>
    IN  <<size[1] * f[1], size[2] * f[2]>>

\* int(position_size / 100) * 100
RoundToLot(size) == ((size[1] \div size[2]) \div lot_step) * lot_step

\* the minimum-size test left out
NeverBelowMinimum(position_size) == FALSE

\* abs(position_size) < min_position_size
BelowMinimum(position_size) ==
    (IF position_size < 0 THEN -position_size ELSE position_size) < min_position_size

\* position size after fixed-risk sizing, volatility adjustment and rounding
PositionSize(balance, stop_distance, atr_pair, risk_percent) ==
    RoundToLot(AdjustedSize(FixedRiskSize(balance, stop_distance, risk_percent),
                            atr_pair))

\* a low confidence let through
NoSignalHoldOnly(sig) == sig.signal = "HOLD"

\* signal.signal == Signal.HOLD or signal.confidence < 0.5
NoSignal(sig) == sig.signal = "HOLD" \/ sig.confidence < min_confidence

\* the method once it holds an account summary: daily-loss gate, market
\* data, signal, correlation check, sizing
EvaluateWithAccount(balance, pnl, data, sig, open_instruments, instrument, stop_distance, atr_pair, risk_percent) ==
    IF DailyLossGateBlocked(pnl, balance) THEN [stage |-> "loss_limit", units |-> 0]
    ELSE IF data # "ok" THEN [stage |-> "no_data", units |-> 0]
    ELSE IF NoSignal(sig) THEN [stage |-> "no_signal", units |-> 0]
    ELSE IF ~check_correlation_risk(instrument, open_instruments)
         THEN [stage |-> "correlated", units |-> 0]
    ELSE LET position_size == PositionSize(balance, stop_distance, atr_pair,
                                           risk_percent)
         IN  IF BelowMinimum(position_size)
             THEN [stage |-> "too_small", units |-> 0]
             ELSE [stage |-> "signal",
                   units |-> IF sig.signal \in {"BUY", "STRONG_BUY"}
                             THEN position_size ELSE -position_size]

\* the method going on without an account summary
SignalIgnoringAccount(acct_ok, balance, pnl, data, sig, open_instruments, instrument, stop_distance, atr_pair, risk_percent) ==
    EvaluateWithAccount(balance, pnl, data, sig, open_instruments, instrument,
                        stop_distance, atr_pair, risk_percent)

\* no account summary: return None
generate_signal_advanced(acct_ok, balance, pnl, data, sig, open_instruments, instrument, stop_distance, atr_pair, risk_percent) ==
    IF ~acct_ok THEN [stage |-> "no_account", units |-> 0]
    ELSE EvaluateWithAccount(balance, pnl, data, sig, open_instruments, instrument,
                             stop_distance, atr_pair, risk_percent)

\* ------------------------------------------------------------------------
\* Initial state: after __init__, before run()
\* ------------------------------------------------------------------------
Start ==
    /\ running = TRUE
    /\ daily_pnl = 0
    /\ trades_today = 0
    /\ broker = [i \in InstrumentSet |-> NoPos]
    /\ pc = "loop"
    /\ todo = <<>>
    /\ positions = {}
    /\ idx = 1
    /\ tick = NewTick
    /\ last = NoClose
    /\ limit_reached = FALSE

Init ==
    /\ Start
    /\ trade_history = <<>>
    /\ winning_trades = 0
    /\ losing_trades = 0
    /\ tracking = FALSE
    /\ preemptive = FALSE
    /\ reads = NoReads
    /\ sizing = NoSizing(use_kelly_criterion)
    /\ clocked = FALSE

\* the same program, with failed close requests remembered from one manage
\* pass to the next
InitTracked ==
    /\ Start
    /\ trade_history = <<>>
    /\ winning_trades = 0
    /\ losing_trades = 0
    /\ tracking = TRUE
    /\ preemptive = FALSE
    /\ reads = NoReads
    /\ sizing = NoSizing(use_kelly_criterion)
    /\ clocked = FALSE

\* ------------------------------------------------------------------------
\* run(): top of the loop
\* ------------------------------------------------------------------------
MarketClosed(weekday, hour) == weekday = 5 \/ (weekday = 6 /\ hour < 22)

\* while self.running fails: run() returns
RunExit ==
    /\ pc = "loop"
    /\ ~running
    /\ pc' = "exited"
    /\ UNCHANGED <<modes, running, bot, broker, todo, positions, idx, tick, last,
                   limit_reached>>

\* market closed: sleep an hour and look again
RunWait ==
    /\ pc = "loop"
    /\ running
    /\ \E weekday \in Weekdays, hour \in Hours : MarketClosed(weekday, hour)
    /\ pc' = "waiting"
    /\ UNCHANGED <<modes, running, bot, broker, todo, positions, idx, tick, last,
                   limit_reached>>

\* time.sleep returns; the record of the finished tick is dropped. Five
\* minutes after a tick the hour-0 window of that tick may still be open,
\* an hour's wait for the market is followed by another window.
WakeUp ==
    /\ pc \in {"waiting", "sleep"}
    /\ pc' = "loop"
    /\ tick' = [NewTick EXCEPT !.reset_done = (pc = "sleep" /\ tick.reset_done)]
    /\ UNCHANGED <<modes, running, bot, broker, todo, positions, idx, last,
                   limit_reached>>

\* market open: a tick starts, in the hour-0 window of the tick before it
\* when that window is not over
RunTick ==
    /\ pc = "loop"
    /\ running
    /\ \E weekday \in Weekdays, hour \in Hours :
          /\ ~MarketClosed(weekday, hour)
          /\ tick' = [tick EXCEPT !.reset_done = (@ /\ hour = 0)]
    /\ pc' = "reset"
    /\ UNCHANGED <<modes, running, bot, broker, todo, positions, idx, last,
                   limit_reached>>

\* ------------------------------------------------------------------------
\* reset_daily_stats
\* ------------------------------------------------------------------------
ResetDue(current_hour, trades) == current_hour = 0 /\ trades > 0

reset_daily_stats ==
    /\ pc = "reset"
    /\ \E current_hour \in Hours :
          /\ tick' = [tick EXCEPT
                         !.hour0 = (current_hour = 0),
                         !.reset_done =
                             /\ clocked
                             /\ current_hour = 0
                             /\ (@ \/ ResetDue(current_hour, trades_today))]
          /\ IF ResetDue(current_hour, trades_today)
             THEN /\ daily_pnl' = 0
                  /\ trades_today' = 0
                  /\ limit_reached' = FALSE
             ELSE UNCHANGED <<daily_pnl, trades_today, limit_reached>>
    /\ pc' = "cycle"
    /\ UNCHANGED <<modes, running, winning_trades, losing_trades, trade_history,
                   broker, todo, positions, idx, last>>

\* ------------------------------------------------------------------------
\* execute_trading_cycle: account status and performance log
\* ------------------------------------------------------------------------
\* win_rate = winning_trades / (winning_trades + losing_trades) * 100 is
\* computed when the account is available and trades_today > 0; with no
\* recorded close the division raises ZeroDivisionError
WinRateRaises(acct_ok, trades, wins, losses) ==
    acct_ok /\ trades > 0 /\ wins + losses = 0

\* the exception leaving run()
AfterFaultUncaught(at) == "exited"

\* except Exception at the end of execute_trading_cycle: the rest of the
\* cycle is skipped and run() goes on to time.sleep(300)
AfterFault(at) == "sleep"

CheckAccount ==
    /\ pc = "cycle"
    /\ \E acct_ok \in BOOLEAN :
          LET raises == WinRateRaises(acct_ok, trades_today, winning_trades,
                                      losing_trades)
          IN  /\ tick' = [tick EXCEPT !.acct = IF acct_ok THEN "ok" ELSE "fail",
                                      !.hour0 = FALSE,
                                      !.fault = raises]
              /\ pc' = IF raises THEN AfterFault(pc) ELSE "manage"
    /\ UNCHANGED <<modes, running, bot, broker, todo, positions, idx, last,
                   limit_reached>>

\* ------------------------------------------------------------------------
\* manage_positions, close_position, update_trade_history
\* ------------------------------------------------------------------------
ManageFetch ==
    /\ pc = "manage"
    /\ \E ok \in BOOLEAN : todo' = get_open_positions(ok)
    /\ tick' = [tick EXCEPT !.managed = TRUE]
    /\ pc' = "manage_loop"
    /\ UNCHANGED <<modes, running, bot, broker, positions, idx, last, limit_reached>>

Reversal(units, sig) ==
    \/ units > 0 /\ sig.signal \in {"SELL", "STRONG_SELL"}
    \/ units < 0 /\ sig.signal \in {"BUY", "STRONG_BUY"}

\* the broker closes every fill of the instrument
close_position(b, instrument, ok) ==
    IF ok THEN [b EXCEPT ![instrument] = NoPos] ELSE b

\* the trim keeping the oldest records
AppendHistoryKeepOldest(history, pnl) ==
    LET h == Append(history, pnl)
    IN  IF Len(h) > history_capacity THEN SubSeq(h, 1, history_capacity) ELSE h

\* append, then self.trade_history[-100:]
AppendHistory(history, pnl) ==
    LET h == Append(history, pnl)
    IN  IF Len(h) > history_capacity
        THEN SubSeq(h, Len(h) - history_capacity + 1, Len(h))
        ELSE h

update_trade_history(pnl) ==
    /\ trade_history' = AppendHistory(trade_history, pnl)
    /\ winning_trades' = IF pnl > 0 THEN winning_trades + 1 ELSE winning_trades
    /\ losing_trades' = IF pnl > 0 THEN losing_trades ELSE losing_trades + 1
    /\ daily_pnl' = daily_pnl + pnl

\* the remembered close request is dropped when its position is gone or changed
Forget(entry, instrument) ==
    IF entry.instrument = instrument THEN NoClose ELSE entry

\* new_stop = current_price - (2 * atr) for a long position,
\* current_price + (2 * atr) for a short one
TrailingStop(units, current_price, atr) ==
    IF units > 0 THEN current_price - 2 * atr ELSE current_price + 2 * atr

\* the trailing stops computed for a position that is not closed: one when
\* the position is profitable and the signal carries an atr
NewStops(instrument, units, unrealized_pl, current_price, atr) ==
    IF unrealized_pl > 0 /\ atr > 0
    THEN {[instrument |-> instrument,
           price |-> TrailingStop(units, current_price, atr)]}
    ELSE {}

\* every computed stop sent to the broker as an order modification
StopUpdatesSent(new_stops) == new_stops

\* the order modifications requested for the computed stops: new_stop is a
\* local that is never read
StopUpdates(new_stops) == {}

\* one iteration of the loop over the fetched positions
ManageOne(position, r) ==
    LET instrument == position.instrument
        unrealized_pl == r.unrealized_pl
        data == r.data
        sig == r.sig
        close_ok == r.close_ok
    IN
      IF data = "ok" /\ Reversal(position.units, sig)
      THEN /\ Len(trade_history) < MaxRecords
           /\ close_ok => broker[instrument].fills > 0
           /\ broker' = close_position(broker, instrument, close_ok)
           /\ update_trade_history(unrealized_pl)
           /\ LET entry == [instrument |-> instrument,
                            upl |-> unrealized_pl,
                            signal |-> sig.signal,
                            confidence |-> sig.confidence]
              IN  /\ last' = IF tracking /\ ~close_ok THEN entry
                             ELSE Forget(last, instrument)
                  /\ tick' = [tick EXCEPT
                         !.visited = @ \cup {instrument},
                         !.closes = @ \cup {[instrument |-> instrument,
                                             units |-> position.units,
                                             signal |-> sig.signal,
                                             confidence |-> sig.confidence]},
                         !.repeated = IF last = entry
                                      THEN @ \cup {instrument} ELSE @]
           /\ UNCHANGED trades_today
      ELSE /\ last' = Forget(last, instrument)
           /\ tick' = [tick EXCEPT
                  !.visited = @ \cup {instrument},
                  !.stops = @ \cup
                      (IF data = "ok"
                       THEN StopUpdates(NewStops(instrument, position.units,
                                unrealized_pl, r.current_price, r.atr))
                       ELSE {})]
           /\ UNCHANGED <<bot, broker>>

ManagePosition ==
    /\ pc = "manage_loop"
    /\ todo # <<>>
    /\ \E r \in ManageReads : ManageOne(Head(todo), r)
    /\ todo' = Tail(todo)
    /\ UNCHANGED <<modes, running, pc, positions, idx, limit_reached>>

\* ------------------------------------------------------------------------
\* execute_trading_cycle: new trading opportunities
\* ------------------------------------------------------------------------
CheckOpportunities ==
    /\ pc = "manage_loop"
    /\ todo = <<>>
    /\ \E ok \in BOOLEAN :
          IF Cardinality(OpenInstruments(ok)) < max_positions
          THEN /\ positions' = OpenInstruments(ok)
               /\ pc' = "entries"
          ELSE /\ positions' = {}
               /\ pc' = "sleep"
    /\ idx' = 1
    /\ last' = IF last.instrument \in tick.visited THEN last ELSE NoClose
    /\ tick' = [tick EXCEPT !.visited = {}, !.closes = {}, !.repeated = {},
                             !.stops = {}]
    /\ UNCHANGED <<modes, running, bot, broker, todo, limit_reached>>

\* what the tick record keeps of an evaluation that placed no order
Outcome(stage) ==
    IF stage \in {"no_account", "too_small"} THEN stage ELSE "no_trade"

\* a fill-or-kill market order nets into the instrument's position
Fill(p, units) ==
    IF p.fills = 0 THEN [fills |-> 1, side |-> IF units > 0 THEN 1 ELSE -1]
    ELSE [p EXCEPT !.fills = @ + 1]

\* the loop going on after a successful order
NextIndexNoBreak(success, k) == k + 1

\* a failed order tried again for the same instrument
NextIndexRetry(success, k) == IF success THEN Len(instruments) + 1 ELSE k

\* if success: break; otherwise the loop goes on with the next instrument
NextIndex(success, k) == IF success THEN Len(instruments) + 1 ELSE k + 1

\* one iteration of the loop over self.instruments
TryInstrument ==
    /\ pc = "entries"
    /\ LET instrument == instruments[idx]
           leave(k) == /\ idx' = IF k > Len(instruments) THEN 1 ELSE k
                       /\ pc' = IF k > Len(instruments) THEN "sleep" ELSE "entries"
                       /\ positions' = IF k > Len(instruments) THEN {} ELSE positions
       IN  IF instrument \in positions
           THEN /\ leave(idx + 1)
                /\ UNCHANGED <<bot, broker, tick, last, limit_reached>>
           ELSE \E r \in EvalReads :
                  LET order_ok == r.order_ok
                      trade_signal ==
                          generate_signal_advanced(r.acct_ok, r.balance, daily_pnl,
                              r.data, r.sig, OpenInstruments(r.corr_ok),
                              instrument, r.stop_distance, r.atr_pair,
                              RiskPercent(sizing.use_kelly, trade_history))
                      stage == trade_signal.stage
                  IN  /\ limit_reached' = (limit_reached \/ stage = "loss_limit")
                      /\ IF stage = "signal"
                         THEN /\ order_ok => /\ broker[instrument].fills < MaxFills
                                             /\ trades_today < MaxTradesToday
                              /\ tick' = [tick EXCEPT !.evals = Append(@,
                                            [instrument |-> instrument,
                                             acct_ok |-> r.acct_ok,
                                             stage |-> IF order_ok THEN "order_ok"
                                                       ELSE "order_failed"])]
                              /\ broker' = IF order_ok
                                           THEN [broker EXCEPT ![instrument] =
                                                   Fill(@, trade_signal.units)]
                                           ELSE broker
                              /\ trades_today' = IF order_ok THEN trades_today + 1
                                                 ELSE trades_today
                              /\ last' = IF order_ok THEN Forget(last, instrument)
                                         ELSE last
                              /\ leave(NextIndex(order_ok, idx))
                         ELSE /\ tick' = [tick EXCEPT !.evals = Append(@,
                                            [instrument |-> instrument,
                                             acct_ok |-> r.acct_ok,
                                             stage |-> Outcome(stage)])]
                              /\ leave(idx + 1)
                              /\ UNCHANGED <<broker, trades_today, last>>
                      /\ UNCHANGED <<daily_pnl, winning_trades, losing_trades,
                                     trade_history>>
    /\ UNCHANGED <<modes, running, todo>>

\* ------------------------------------------------------------------------
\* execute_trading_cycle: any other exception
\* ------------------------------------------------------------------------
\* a gateway request (requests.get, requests.post, requests.put) or the
\* reading of its answer raises inside the try block; of the tick's record
\* only how far the tick got is kept
RaiseInCycle ==
    /\ pc \in {"cycle", "manage", "manage_loop", "entries"}
    /\ pc' = AfterFault(pc)
    /\ tick' = [NewTick EXCEPT !.fault = TRUE, !.acct = tick.acct,
                               !.managed = tick.managed,
                               !.reset_done = tick.reset_done]
    /\ todo' = <<>>
    /\ positions' = {}
    /\ idx' = 1
    /\ UNCHANGED <<modes, running, bot, broker, last, limit_reached>>

\* ------------------------------------------------------------------------
\* The broker between two ticks
\* ------------------------------------------------------------------------
\* the stop-loss or take-profit order attached to the fill is triggered
StopOut ==
    /\ pc = "loop"
    /\ \E i \in InstrumentSet :
          /\ broker[i].fills > 0
          /\ broker' = [broker EXCEPT ![i] = NoPos]
    /\ UNCHANGED <<modes, running, bot, pc, todo, positions, idx, tick, last,
                   limit_reached>>

\* ------------------------------------------------------------------------
\* stop()
\* ------------------------------------------------------------------------
\* where the run loop is when stop() is called: between two ticks, or
\* anywhere in the loop when the caller does not wait for the tick to end
StopCallable(at) == at = "loop" \/ (preemptive /\ at # "exited")

\* the instruments of the first n positions of the list
FirstInstruments(list, n) == {list[k].instrument : k \in 1..n}

\* how many close requests the loop over the positions can get to: all of
\* them, or fewer when a request raises
DrainLengths(list) == 0..Len(list)

\* self.running = False, then a close request for each fetched position;
\* closed are the requests the broker answers with success
stop ==
    /\ StopCallable(pc)
    /\ running
    /\ running' = FALSE
    /\ \E ok \in BOOLEAN :
          LET list == get_open_positions(ok)
          IN  \E n \in DrainLengths(list) :
                \E closed \in SUBSET FirstInstruments(list, n) :
                   /\ broker' = [i \in InstrumentSet |->
                                    IF i \in closed THEN NoPos ELSE broker[i]]
                   /\ tick' = [tick EXCEPT !.drained = FirstInstruments(list, n)]
    /\ UNCHANGED <<modes, bot, pc, todo, positions, idx, last, limit_reached>>

Next ==
    \/ RunExit
    \/ RunWait
    \/ WakeUp
    \/ RunTick
    \/ reset_daily_stats
    \/ CheckAccount
    \/ ManageFetch
    \/ ManagePosition
    \/ CheckOpportunities
    \/ TryInstrument
    \/ RaiseInCycle
    \/ StopOut
    \/ stop

Spec == Init /\ [][Next]_vars

\* ------------------------------------------------------------------------
\* update_trade_history on its own, from a history of any length
\* ------------------------------------------------------------------------
\* n earlier closes, the k-th with pnl k
Numbered(n) == [k \in 1..n |-> k]

\* the records of the history booked after the given ones
Appended(history) ==
    Cardinality({k \in 1..Len(history) : history[k] \notin 1..history_capacity})

\* the bot after n winning closes and a daily reset
InitHistory ==
    /\ Start
    /\ \E n \in 0..history_capacity :
          /\ trade_history = Numbered(n)
          /\ winning_trades = n
    /\ losing_trades = 0
    /\ tracking = FALSE
    /\ preemptive = FALSE
    /\ reads = NoReads
    /\ sizing = NoSizing(use_kelly_criterion)
    /\ clocked = FALSE

\* manage_positions books a close
RecordClose ==
    /\ Appended(trade_history) < MaxAppends
    /\ \E pnl \in PLs : update_trade_history(pnl)
    /\ UNCHANGED <<modes, running, trades_today, broker, pc, todo, positions, idx,
                   tick, last, limit_reached>>

NextHistory == RecordClose

SpecHistory == InitHistory /\ [][NextHistory]_vars

\* ------------------------------------------------------------------------
\* The choice of risk_percent on its own, with either setting of
\* use_kelly_criterion and a history of about 20 closes
\* ------------------------------------------------------------------------
Wins(w) == [k \in 1..w |-> CHOOSE pl \in PLs : pl > 0]

Losses(l) == [k \in 1..l |-> CHOOSE pl \in PLs : pl < 0]

\* the bot after w winning and l losing closes and a daily reset
InitKelly ==
    /\ Start
    /\ \E n \in (kelly_min_trades - 1)..(kelly_min_trades + 1) :
          \E w \in 1..(n - 1) :
             /\ trade_history = Wins(w) \o Losses(n - w)
             /\ winning_trades = w
             /\ losing_trades = n - w
    /\ tracking = FALSE
    /\ preemptive = FALSE
    /\ reads = NoReads
    /\ \E use_kelly \in BOOLEAN : sizing = NoSizing(use_kelly)
    /\ clocked = FALSE

\* generate_signal_advanced reaches the position sizing
ChooseRiskPercent ==
    /\ sizing.risk_percent < 0
    /\ sizing' = [sizing EXCEPT
                     !.kelly = KellyInvoked(sizing.use_kelly, trade_history),
                     !.risk_percent = RiskPercent(sizing.use_kelly, trade_history)]
    /\ UNCHANGED <<tracking, preemptive, reads, clocked, running, bot, broker, pc,
                   todo, positions, idx, tick, last, limit_reached>>

NextKelly == ChooseRiskPercent

SpecKelly == InitKelly /\ [][NextKelly]_vars

\* ------------------------------------------------------------------------
\* One call of generate_signal_advanced, and the order that
\* execute_trading_cycle places with its result, for every combination of
\* reads
\* ------------------------------------------------------------------------
InitSignal ==
    /\ Start
    /\ trade_history = <<>>
    /\ winning_trades = 0
    /\ losing_trades = 0
    /\ tracking = FALSE
    /\ preemptive = FALSE
    /\ reads \in SignalReads
    /\ sizing = NoSizing(use_kelly_criterion)
    /\ clocked = FALSE

\* the trade signal with the reads it was computed from; stage "order"
\* stands for a signal handed to place_order
Order(r, trade_signal) ==
    [instrument |-> r.instrument, acct_ok |-> r.acct_ok,
     stage |-> IF trade_signal.stage = "signal" THEN "order"
               ELSE trade_signal.stage,
     units |-> trade_signal.units]

EvaluateAlone ==
    /\ tick.evals = <<>>
    /\ LET trade_signal ==
               generate_signal_advanced(reads.acct_ok, reads.balance, daily_pnl,
                   reads.data, reads.sig, reads.open_instruments,
                   reads.instrument, reads.stop_distance, reads.atr_pair,
                   RiskPercent(sizing.use_kelly, trade_history))
       IN  tick' = [tick EXCEPT !.evals = <<Order(reads, trade_signal)>>]
    /\ UNCHANGED <<modes, running, bot, broker, pc, todo, positions, idx, last,
                   limit_reached>>

NextSignal == EvaluateAlone

SpecSignal == InitSignal /\ [][NextSignal]_vars

\* ------------------------------------------------------------------------
\* One iteration of manage_positions on its own, for every combination of
\* reads, with and without an atr in the signal
\* ------------------------------------------------------------------------
\* the bot in manage_positions, about to visit the position of reads
InitManage ==
    /\ running = TRUE
    /\ daily_pnl = 0
    /\ trades_today \in 0..1
    /\ trade_history = <<>>
    /\ winning_trades = 0
    /\ losing_trades = 0
    /\ reads \in ManageAloneReads
    /\ \E other \in {NoPos, [fills |-> 1, side |-> 1]} :
          broker = [i \in InstrumentSet |->
                       IF i = reads.instrument
                       THEN [fills |-> 1, side |-> reads.units]
                       ELSE other]
    /\ pc = "manage_loop"
    /\ todo = <<>>
    /\ positions = {}
    /\ idx = 1
    /\ tick = [NewTick EXCEPT !.acct = "ok", !.managed = TRUE]
    /\ last = NoClose
    /\ limit_reached = FALSE
    /\ tracking = FALSE
    /\ preemptive = FALSE
    /\ clocked = FALSE
    /\ sizing = NoSizing(use_kelly_criterion)

ManageAlone ==
    /\ tick.visited = {}
    /\ ManageOne([instrument |-> reads.instrument, units |-> reads.units], reads)
    /\ UNCHANGED <<modes, running, pc, todo, positions, idx, limit_reached>>

NextManage == ManageAlone

SpecManage == InitManage /\ [][NextManage]_vars

\* the clock goes on: a sleep ends, and the market opens again and again
SpecFair == Spec /\ WF_vars(WakeUp) /\ SF_vars(RunTick)

SpecTracked == InitTracked /\ [][Next]_vars

\* the same program, with stop() called at any point of the run loop
InitPreemptive ==
    /\ Start
    /\ trade_history = <<>>
    /\ winning_trades = 0
    /\ losing_trades = 0
    /\ tracking = FALSE
    /\ preemptive = TRUE
    /\ reads = NoReads
    /\ sizing = NoSizing(use_kelly_criterion)
    /\ clocked = FALSE

SpecPreemptive == InitPreemptive /\ [][Next]_vars

\* the same program, with the hour-0 window of the ticks followed
InitClocked ==
    /\ Start
    /\ trade_history = <<>>
    /\ winning_trades = 0
    /\ losing_trades = 0
    /\ tracking = FALSE
    /\ preemptive = FALSE
    /\ reads = NoReads
    /\ sizing = NoSizing(use_kelly_criterion)
    /\ clocked = TRUE

SpecClocked == InitClocked /\ [][Next]_vars

TypeOK ==
    /\ running \in BOOLEAN
    /\ trades_today \in 0..MaxTradesToday
    /\ Len(trade_history) <= MaxRecords
    /\ winning_trades + losing_trades <= MaxRecords
    /\ \A i \in InstrumentSet : broker[i].fills \in 0..MaxFills

\* ------------------------------------------------------------------------
\* Properties
\* ------------------------------------------------------------------------
Requested(e) == e.stage \in {"order_ok", "order_failed"}

Sized(e) == e.stage \in {"too_small", "order_ok", "order_failed"}

Evals == 1..Len(tick.evals)

GateBlocked == \A b \in Balances : DailyLossGateBlocked(daily_pnl, b)

\* C1: once an evaluation has found dailyPnL <= -balance * maxDailyLoss, no
\* order placement is requested in that tick or in any later tick until the
\* daily counters have been reset.
C1_NoEntryUntilReset ==
    [][limit_reached =>
         ~(/\ Len(tick'.evals) = Len(tick.evals) + 1
           /\ Requested(tick'.evals[Len(tick'.evals)]))]_vars

\* C2: a tick that runs at UTC hour 0 resets the daily counters of a blocked
\* daily-loss gate, so right after its reset step dailyPnL is 0 and the gate
\* is open, whatever tradesToday was.
C2_ResetReopensGate == (pc = "cycle" /\ tick.hour0) => ~GateBlocked

\* C3: every tick that has run to its end has run manage_positions.
C3_ManagedEveryTick == pc = "sleep" => tick.managed

\* C4: at most one order placement succeeds within one tick.
C4_OneOpenPerTick ==
    Cardinality({k \in Evals : tick.evals[k].stage = "order_ok"}) <= 1

\* a tick ended by a successful order for the first instrument while the
\* second instrument was free
C4_Witness ==
    /\ pc = "sleep"
    /\ Len(tick.evals) = 1
    /\ tick.evals[1].instrument = instruments[1]
    /\ tick.evals[1].stage = "order_ok"
    /\ broker[instruments[2]].fills = 0

C6_MaxPositions == OpenCount <= max_positions

\* C7: no instrument has two positions opened by the bot at the same time.
C7_OnePerInstrument == \A i \in InstrumentSet : broker[i].fills <= 1

C9_CloseNeedsConfidence ==
    \A c \in tick.closes :
       /\ Reversal(c.units, [signal |-> c.signal, confidence |-> c.confidence])
       /\ c.confidence >= min_confidence

\* C10: a manage pass does not repeat the close request and the history
\* record of the pass before it for an unchanged position and signal.
C10_Idempotent == tick.repeated = {}

\* C11: the UTC hour-0 reset sets dailyPnL and tradesToday to 0 and clears
\* winningTrades and losingTrades to 0.
C11_ResetClearsCounters ==
    [][(pc = "reset" /\ ResetDue(IF tick'.hour0 THEN 0 ELSE 1, trades_today))
         => (/\ daily_pnl' = 0
             /\ trades_today' = 0
             /\ winning_trades' = 0
             /\ losing_trades' = 0)]_vars

\* C12: the trade history never holds more than 100 records; a record
\* appended to a full history evicts exactly the oldest record, and the
\* other records keep their order.
C12_HistoryBounded ==
    [][winning_trades' + losing_trades' # winning_trades + losing_trades =>
         LET n == Len(trade_history)
             m == Len(trade_history')
         IN  /\ m <= history_capacity
             /\ m = IF n = history_capacity THEN n ELSE n + 1
             /\ trade_history'[m] \in PLs
             /\ SubSeq(trade_history', 1, m - 1) =
                    IF n = history_capacity THEN Tail(trade_history)
                    ELSE trade_history]_vars

\* a full history whose oldest record has been evicted by a new close
C12_Witness ==
    /\ Len(trade_history) = history_capacity
    /\ trade_history[1] = 2
    /\ trade_history[history_capacity] \in PLs

\* C13: with useKellyCriterion enabled the Kelly fraction is used exactly
\* when at least 20 trades are in the history, so also with exactly 20;
\* with fewer, or with Kelly disabled, maxRiskPerTrade is used directly.
C13_KellyFrom20Trades ==
    sizing.risk_percent >= 0 =>
        /\ sizing.kelly <=> (sizing.use_kelly /\ Len(trade_history) >= 20)
        /\ ~sizing.kelly => sizing.risk_percent = max_risk_per_trade

Abs(x) == IF x < 0 THEN -x ELSE x

\* the evaluation studied alone has been made
Evaluated == reads # NoReads /\ tick.evals # <<>>

\* its trade signal was handed to place_order
Placed == Evaluated /\ tick.evals[1].stage = "order"

C15_RiskWithinCap ==
    Placed => Abs(tick.evals[1].units) * reads.stop_distance
                 <= reads.balance * max_risk_per_trade

\* C16: a signal that is Hold or has a confidence below 0.5 is a no-trade
\* before the correlation filter and the sizing are reached, and no order
\* is placed for it.
C16_NoOrderWithoutSignal ==
    (Evaluated /\ (reads.sig.signal = "HOLD" \/ reads.sig.confidence < 50))
        => tick.evals[1].stage \in {"no_account", "loss_limit", "no_data", "no_signal"}

\* a Buy of low confidence turned down where everything else allowed an order
C16_Witness ==
    /\ Evaluated
    /\ reads.sig.signal = "BUY"
    /\ reads.sig.confidence < 50
    /\ reads.open_instruments = {}
    /\ reads.stop_distance = 15
    /\ tick.evals[1].stage = "no_signal"

\* C17: no order is placed for a candidate the correlation filter rejects
\* against the open instruments, so two instruments that share a currency
\* code are never both open.
C17_NoCorrelatedPair ==
    \A i, j \in InstrumentSet :
       (i # j /\ Currencies(i) \cap Currencies(j) # {})
           => ~(broker[i].fills > 0 /\ broker[j].fills > 0)

\* C18: stop() issues a close request for every position open at that
\* moment, also after a failed close of another position.
C18_DrainClosesAll ==
    [][(running /\ ~running')
         => \A i \in InstrumentSet : broker[i].fills > 0 => i \in tick'.drained]_vars

\* C19: once stop has been requested no new tick is started and no order
\* placement is requested, also when stop is requested while a tick is in
\* progress.
C19_NoOrderAfterStop ==
    [][~running =>
         /\ ~(pc = "loop" /\ pc' = "reset")
         /\ ~(/\ Len(tick'.evals) = Len(tick.evals) + 1
               /\ Requested(tick'.evals[Len(tick'.evals)]))]_vars

\* C20: a fault raised during a tick is caught and the run loop goes on to
\* the next tick: run() returns only after stop(), and while not cancelled
\* a failing tick is followed by another tick.
C20_FaultDoesNotTerminate ==
    /\ [](pc = "exited" => ~running)
    /\ (tick.fault /\ running) ~> (pc = "reset" \/ ~running)

\* a tick ended by a fault after manage_positions had started, with a
\* position open
C20_Witness ==
    /\ tick.fault
    /\ running
    /\ pc = "sleep"
    /\ tick.managed
    /\ OpenCount > 0

\* C21: when the re-evaluated signal of an open position is not a reversal,
\* the iteration of manage_positions requests no close and no other change
\* at the gateway and leaves tradeHistory, winningTrades, losingTrades,
\* dailyPnL and tradesToday unchanged; the trailing stop it computes for a
\* profitable position changes no state.
C21_NoEffectWithoutReversal ==
    [][(/\ tick'.visited # tick.visited
        /\ ~(reads.units > 0 /\ reads.sig.signal \in {"SELL", "STRONG_SELL"})
        /\ ~(reads.units < 0 /\ reads.sig.signal \in {"BUY", "STRONG_BUY"}))
         => /\ bot' = bot
            /\ broker' = broker
            /\ tick'.closes = tick.closes
            /\ tick'.stops = tick.stops]_vars

\* a profitable long position visited with a BUY signal carrying an atr
C21_Witness ==
    /\ tick.visited = {reads.instrument}
    /\ reads.units > 0
    /\ reads.unrealized_pl > 0
    /\ reads.data = "ok"
    /\ reads.sig.signal = "BUY"
    /\ reads.atr > 0
    /\ broker[reads.instrument].fills = 1

\* C23: the daily reset takes effect at most once per UTC day: after a tick
\* at hour 0 has reset dailyPnL and tradesToday, no later tick of the same
\* hour-0 window resets them again.
C23_OneResetPerDay ==
    [][(pc = "reset" /\ tick.reset_done)
         => (daily_pnl' = daily_pnl /\ trades_today' = trades_today)]_vars

\* C22: the win-rate computation never divides by zero: at the start of a
\* tick, tradesToday > 0 implies winningTrades + losingTrades > 0.
C22_WinRateDefined ==
    (pc = "cycle" /\ trades_today > 0) => winning_trades + losing_trades > 0

====
